---- MODULE Spec2Model ----
(***************************************************************************)
(* Model of src/StudentManagementSystem.cpp: the in-memory record store    *)
(* (vector<Student> students), its menu operations, and the persistence    *)
(* of the store in the text file students.dat (written by the destructor,  *)
(* read by the constructor of the next run of the program).                *)
(*                                                                         *)
(* Text is a sequence of one-character strings.  A float `marks` is        *)
(* modelled on a grid of hundredths (88.5 is 8850); the default stream     *)
(* format (six significant digits) is exact on that grid below 10000.00,   *)
(* and float rounding inside sums is below the grid and not modelled.      *)
(***************************************************************************)
EXTENDS Integers, Sequences, FiniteSets, TLC

VARIABLES students, file, phase, out

vars == <<students, file, phase, out>>

-----------------------------------------------------------------------------
(* Bounds of the model.                                                    *)

\* add is not offered once the store holds this many records
MaxStudents == 2

-----------------------------------------------------------------------------
(* Characters and text.                                                    *)

NL == "\n"

DigitChars == <<"0", "1", "2", "3", "4", "5", "6", "7", "8", "9">>

IsDigit(c) == \E i \in 1..10 : DigitChars[i] = c

DigitValue(c) == (CHOOSE i \in 1..10 : DigitChars[i] = c) - 1

\* isspace() of the classic locale, over the characters of the model
IsSpace(c) == c \in {" ", NL}

\* the unit of marks: hundredths per whole mark
Scale == 100

\* the limits of the validation `marks < 0 || marks > 100`
MinMarks == 0
MaxMarks == 100 * Scale

\* numeric_limits<int>::max() \div 10 and % 10, for the overflow test of >> int
IntMaxDiv10 == 214748364
IntMaxMod10 == 7

-----------------------------------------------------------------------------
(* operator<<(ofstream&, const Student&): formatting.                      *)

RECURSIVE FormatNat(_)
FormatNat(n) ==
    IF n < 10 THEN <<DigitChars[n + 1]>>
    ELSE FormatNat(n \div 10) \o <<DigitChars[(n % 10) + 1]>>

\* ofs << s.rollNo
FormatInt(n) == IF n < 0 THEN <<"-">> \o FormatNat(-n) ELSE FormatNat(n)

\* ofs << s.marks: default float format (%g, precision 6): no trailing zeros,
\* no decimal point when the fraction is zero.  Exact for |m| < 10000.00.
FormatMarks(m) ==
    LET a  == IF m < 0 THEN -m ELSE m
        ip == a \div Scale
        fp == a % Scale
        frac == IF fp = 0 THEN <<>>
                ELSE IF fp % 10 = 0 THEN <<".", DigitChars[(fp \div 10) + 1]>>
                ELSE <<".", DigitChars[(fp \div 10) + 1], DigitChars[(fp % 10) + 1]>>
    IN  (IF m < 0 THEN <<"-">> ELSE <<>>) \o FormatNat(ip) \o frac

\* one record as written: three lines, each ended by endl
WriteStudent(s) ==
    s.name \o <<NL>> \o FormatInt(s.rollNo) \o <<NL>> \o FormatMarks(s.marks) \o <<NL>>

\* the loop of saveToFile over the first k records
RECURSIVE WriteStudents(_, _)
WriteStudents(ss, k) ==
    IF k = 0 THEN <<>> ELSE WriteStudents(ss, k - 1) \o WriteStudent(ss[k])

-----------------------------------------------------------------------------
(* operator>>(ifstream&, Student&): parsing.  The stream is its unread      *)
(* text; eofbit is set exactly when a read ran into the end, which leaves   *)
(* the unread text empty.                                                   *)

RECURSIVE SkipWs(_)
SkipWs(s) == IF s # <<>> /\ IsSpace(Head(s)) THEN SkipWs(Tail(s)) ELSE s

RECURSIVE NumDigits(_)
NumDigits(s) == IF s # <<>> /\ IsDigit(Head(s)) THEN 1 + NumDigits(Tail(s)) ELSE 0

Drop(s, n) == SubSeq(s, n + 1, Len(s))

\* getline(ifs, s.name): fails only when no character at all is extracted
GetLine(s) ==
    IF s = <<>> THEN [ok |-> FALSE, val |-> <<>>, rest |-> <<>>]
    ELSE IF \E i \in 1..Len(s) : s[i] = NL
         THEN LET i == CHOOSE j \in 1..Len(s) :
                           s[j] = NL /\ \A k \in 1..(j - 1) : s[k] # NL
              IN  [ok |-> TRUE, val |-> SubSeq(s, 1, i - 1), rest |-> Drop(s, i)]
         ELSE [ok |-> TRUE, val |-> s, rest |-> <<>>]

\* the value of a run of digits, and whether it fits an int
RECURSIVE IntOfDigits(_, _)
IntOfDigits(ds, acc) ==
    IF ds = <<>> THEN [ok |-> TRUE, val |-> acc]
    ELSE LET d == DigitValue(Head(ds))
         IN  IF acc > IntMaxDiv10
                \/ (acc = IntMaxDiv10 /\ d > IntMaxMod10)
             THEN [ok |-> FALSE, val |-> 0]
             ELSE IntOfDigits(Tail(ds), acc * 10 + d)

\* ifs >> s.rollNo: skip whitespace, optional sign, decimal digits
ReadInt(s) ==
    LET t   == SkipWs(s)
        sgn == t # <<>> /\ Head(t) \in {"-", "+"}
        u   == IF sgn THEN Tail(t) ELSE t
        n   == NumDigits(u)
        v   == IntOfDigits(SubSeq(u, 1, n), 0)
    IN  IF n = 0 \/ ~v.ok
        THEN [ok |-> FALSE, val |-> 0, rest |-> Drop(u, n)]
        ELSE [ok |-> TRUE,
              val |-> IF sgn /\ Head(t) = "-" THEN -v.val ELSE v.val,
              rest |-> Drop(u, n)]

RECURSIVE NatOfDigits(_, _)
NatOfDigits(ds, acc) ==
    IF ds = <<>> THEN acc ELSE NatOfDigits(Tail(ds), acc * 10 + DigitValue(Head(ds)))

\* the fraction digits as hundredths, rounded to the nearest on the third digit
FracValue(ds) ==
    LET d(i) == IF i <= Len(ds) THEN DigitValue(ds[i]) ELSE 0
    IN  d(1) * 10 + d(2) + (IF d(3) >= 5 THEN 1 ELSE 0)

\* ifs >> s.marks: skip whitespace, optional sign, digits, optional point and
\* digits (the files of the model hold no exponent)
ReadFloat(s) ==
    LET t   == SkipWs(s)
        sgn == t # <<>> /\ Head(t) \in {"-", "+"}
        u   == IF sgn THEN Tail(t) ELSE t
        n1  == NumDigits(u)
        w   == Drop(u, n1)
        pt  == w # <<>> /\ Head(w) = "."
        x   == IF pt THEN Tail(w) ELSE w
        n2  == IF pt THEN NumDigits(x) ELSE 0
        a   == NatOfDigits(SubSeq(u, 1, n1), 0) * Scale + FracValue(SubSeq(x, 1, n2))
    IN  IF n1 + n2 = 0
        THEN [ok |-> FALSE, val |-> 0, rest |-> w]
        ELSE [ok |-> TRUE,
              val |-> IF sgn /\ Head(t) = "-" THEN -a ELSE a,
              rest |-> Drop(x, n2)]

\* One pass of operator>>.  st = "throw": a read failed, the catch (...) closes
\* the stream and throws "Corrupted data in file".  st = "ok": three fields
\* read and ifs.ignore() skipped one character.  st = "fail": three fields
\* read up to the end of the text, so eofbit is set and the sentry of
\* ifs.ignore() sets failbit: the operator returns a failed stream, no throw.
ReadStudent(s) ==
    LET g == GetLine(s)
        r == ReadInt(g.rest)
        m == ReadFloat(r.rest)
        rec == [name |-> g.val, rollNo |-> r.val, marks |-> m.val]
    IN  IF ~g.ok \/ ~r.ok \/ ~m.ok
        THEN [st |-> "throw", rec |-> rec, rest |-> <<>>]
        ELSE IF m.rest = <<>>
        THEN [st |-> "fail", rec |-> rec, rest |-> <<>>]
        ELSE [st |-> "ok", rec |-> rec, rest |-> Tail(m.rest)]

-----------------------------------------------------------------------------
(* Console messages.                                                       *)

MsgFresh == "No existing data file found. Starting fresh."
MsgLoaded == "Data loaded successfully."
MsgCorrupted == "Warning: Corrupted data in file. Starting with empty database."

\* loadFromFile whose catch forgets students.clear()
RECURSIVE loadFromFileKeepsParsed(_, _)
loadFromFileKeepsParsed(text, acc) ==
    LET r == ReadStudent(text)
    IN  IF r.st = "ok" THEN loadFromFileKeepsParsed(r.rest, Append(acc, r.rec))
        ELSE IF r.st = "throw" THEN [students |-> acc, msg |-> MsgCorrupted]
        ELSE [students |-> acc, msg |-> MsgLoaded]

\* loadFromFile on an open file: `while (file >> s) students.push_back(s)`.
\* A throw of operator>> leaves the loop for the catch, which clears the
\* store; a failed stream ends the loop and the success message follows.
RECURSIVE loadFromFile(_, _)
loadFromFile(text, acc) ==
    LET r == ReadStudent(text)
    IN  IF r.st = "ok" THEN loadFromFile(r.rest, Append(acc, r.rec))
        ELSE IF r.st = "throw" THEN [students |-> <<>>, msg |-> MsgCorrupted]
        ELSE [students |-> acc, msg |-> MsgLoaded]

-----------------------------------------------------------------------------
(* Console input.  A numeric token is what `cin >> x` makes of it: ok is    *)
(* FALSE when the extraction fails (the handler then calls clearCin and     *)
(* throws).  A field the handler never came to read is NoToken.             *)

Num(v) == [ok |-> TRUE, val |-> v]
BadToken == [ok |-> FALSE, val |-> 0]
NoToken == [ok |-> FALSE, val |-> -1]

Alice == <<"A", "l">>
Bob == <<"B">>

NameInputs == {<<>>, Alice}
RollInputs == {BadToken, Num(-1), Num(0), Num(1)}
MarksInputs == {BadToken, Num(-1), Num(0), Num(MaxMarks), Num(MaxMarks + 1)}

\* the tokens a handler reads after the field before them was accepted
RollRead(n) == IF n = <<>> THEN {NoToken} ELSE RollInputs
MarksRead(r) == IF r.ok /\ r.val >= 0 THEN MarksInputs ELSE {NoToken}

Output(op, msg, rows, stats) ==
    [op |-> op, msg |-> msg, rows |-> rows, stats |-> stats]

NoStats == [count |-> 0, avgNum |-> 0, avgDen |-> 0, max |-> 0, min |-> 0]

MsgSaved == "Data saved successfully."
MsgCannotCreate == "Shutdown error: Cannot create data file"
MsgWriteFailed == "Shutdown error: Save failed: Failed to write student data to file"
MsgNameEmpty == "Error: Name cannot be empty"
MsgBadRoll == "Error: Invalid input for roll number"
MsgNegativeRoll == "Error: Roll number cannot be negative"
MsgBadMarks == "Error: Invalid input for marks"
MsgMarksRange == "Error: Marks must be between 0-100"
MsgExists == "Error: Student with this Roll No already exists"
MsgAdded == "Student added successfully!"
MsgNotFound == "Error: Student not found"
MsgFound == "Student Found:"
MsgUpdated == "Student details updated successfully!"
MsgDeleted == "Student deleted successfully!"
MsgNoStudents == "No students found!"
MsgTable == "Name Roll No Marks"
MsgStatistics == "--- Statistics ---"

-----------------------------------------------------------------------------
(* The data files the first run of the program may find.                   *)

Line(t) == t \o <<NL>>

\* a file without its last character (the last line has no terminator)
Chop(t) == SubSeq(t, 1, Len(t) - 1)

RecAlice == [name |-> Alice, rollNo |-> 1, marks |-> 8850]
RecBob == [name |-> Bob, rollNo |-> 0, marks |-> 4200]
RecBad == [name |-> <<>>, rollNo |-> -1, marks |-> 20050]
RecA == [name |-> <<"A">>, rollNo |-> 1, marks |-> 50 * Scale]
RecB == [name |-> <<"B">>, rollNo |-> 0, marks |-> 70 * Scale]
RecC == [name |-> <<"C">>, rollNo |-> 2, marks |-> 90 * Scale]

FileTexts ==
    { <<>>,
      WriteStudent(RecAlice),
      Chop(WriteStudent(RecAlice)),
      WriteStudent(RecAlice) \o WriteStudent(RecBob),
      Chop(WriteStudent(RecAlice) \o WriteStudent(RecBob)),
      Chop(WriteStudent(RecAlice) \o WriteStudent(RecAlice) \o WriteStudent(RecBob)),
      Chop(WriteStudent(RecBad) \o WriteStudent(RecBob)),
      Chop(WriteStudent(RecBob) \o WriteStudent(RecBad) \o WriteStudent(RecAlice)),
      Chop(WriteStudent(RecA) \o WriteStudent(RecB) \o WriteStudent(RecC)
             \o WriteStudent(RecAlice)),
      WriteStudent(RecAlice) \o Line(Bob),
      WriteStudent(RecAlice) \o Bob,
      WriteStudent(RecAlice) \o Line(Bob) \o Line(<<"x">>) \o Line(<<"5">>),
      WriteStudent(RecAlice) \o Line(Bob) \o Line(<<"0">>) \o Line(<<"x">>),
      WriteStudent(RecAlice) \o Line(Bob) \o <<"0">>,
      Line(Bob) \o Line(<<"3", "0", "0", "0", "0", "0", "0", "0", "0", "0">>) \o <<"5">> }

NoFile == [exists |-> FALSE, data |-> <<>>]
FileOf(t) == [exists |-> TRUE, data |-> t]

InitFiles == {NoFile} \cup {FileOf(t) : t \in FileTexts}

-----------------------------------------------------------------------------
(* The store.                                                              *)

\* findStudentIndex: the index (from 0) of the first record with rollNo, or -1
findStudentIndex(ss, rollNo) ==
    IF \E i \in 1..Len(ss) : ss[i].rollNo = rollNo
    THEN (CHOOSE i \in 1..Len(ss) :
              ss[i].rollNo = rollNo /\ \A j \in 1..(i - 1) : ss[j].rollNo # rollNo) - 1
    ELSE -1

\* students.erase(students.begin() + index), index from 0
Erase(ss, index) == SubSeq(ss, 1, index) \o SubSeq(ss, index + 2, Len(ss))

Init ==
    /\ students = <<>>
    /\ file \in InitFiles
    /\ phase = "off"
    /\ out = Output("none", "", <<>>, NoStats)

\* main constructs sms: the constructor calls loadFromFile
Start ==
    /\ phase = "off"
    /\ phase' = "running"
    /\ IF ~file.exists
       THEN /\ students' = <<>>
            /\ out' = Output("load", MsgFresh, <<>>, NoStats)
       ELSE LET r == loadFromFile(file.data, <<>>)
            IN  /\ students' = r.students
                /\ out' = Output("load", r.msg, <<>>, NoStats)
    /\ UNCHANGED file

\* Student::Student throws on these (the name is not checked)
StudentThrows(rollNo, marks) == rollNo < 0 \/ marks < MinMarks \/ marks > MaxMarks

\* Student::setName
setName(s, n) ==
    IF n = <<>> THEN [ok |-> FALSE, s |-> s] ELSE [ok |-> TRUE, s |-> [s EXCEPT !.name = n]]

\* Student::setMarks
setMarks(s, m) ==
    IF m < MinMarks \/ m > MaxMarks THEN [ok |-> FALSE, s |-> s]
    ELSE [ok |-> TRUE, s |-> [s EXCEPT !.marks = m]]

Result(ss, o) == [students |-> ss, out |-> o]

\* addStudent whose range test rejects the upper limit itself
addStudentRejectsLimit(ss, n, r, m) ==
    LET fail(msg) == Result(ss, Output("add", msg, <<>>, NoStats))
    IN  IF n = <<>> THEN fail(MsgNameEmpty)
        ELSE IF ~r.ok THEN fail(MsgBadRoll)
        ELSE IF r.val < 0 THEN fail(MsgNegativeRoll)
        ELSE IF ~m.ok THEN fail(MsgBadMarks)
        ELSE IF m.val < MinMarks \/ m.val >= MaxMarks THEN fail(MsgMarksRange)
        ELSE IF findStudentIndex(ss, r.val) # -1 THEN fail(MsgExists)
        ELSE Result(Append(ss, [name |-> n, rollNo |-> r.val, marks |-> m.val]),
                    Output("add", MsgAdded, <<>>, NoStats))

\* addStudent on the store ss with the console holding the name n, then the
\* tokens r and m: the store after, and what is printed
addStudentResult(ss, n, r, m) ==
    LET fail(msg) == Result(ss, Output("add", msg, <<>>, NoStats))
    IN  IF n = <<>> THEN fail(MsgNameEmpty)
        ELSE IF ~r.ok THEN fail(MsgBadRoll)
        ELSE IF r.val < 0 THEN fail(MsgNegativeRoll)
        ELSE IF ~m.ok THEN fail(MsgBadMarks)
        ELSE IF m.val < MinMarks \/ m.val > MaxMarks THEN fail(MsgMarksRange)
        ELSE IF findStudentIndex(ss, r.val) # -1 THEN fail(MsgExists)
        ELSE IF StudentThrows(r.val, m.val) THEN fail(MsgNegativeRoll)
        ELSE Result(Append(ss, [name |-> n, rollNo |-> r.val, marks |-> m.val]),
                    Output("add", MsgAdded, <<>>, NoStats))

\* menu choice 1
addStudent ==
    /\ phase = "running"
    /\ \E n \in NameInputs : \E r \in RollRead(n) : \E m \in MarksRead(r) :
         LET res == addStudentResult(students, n, r, m)
         IN  /\ ~(Len(res.students) > MaxStudents /\ res.students # students)
             /\ students' = res.students
             /\ out' = res.out
    /\ UNCHANGED <<file, phase>>

\* menu choice 2
displayAll ==
    /\ phase = "running"
    /\ out' = IF students = <<>>
              THEN Output("display", MsgNoStudents, <<>>, NoStats)
              ELSE Output("display", MsgTable, students, NoStats)
    /\ UNCHANGED <<students, file, phase>>

searchStudentResult(ss, r) ==
    LET index == findStudentIndex(ss, r.val)
    IN  IF ~r.ok THEN Output("search", MsgBadRoll, <<>>, NoStats)
        ELSE IF index = -1 THEN Output("search", MsgNotFound, <<>>, NoStats)
        ELSE Output("search", MsgFound, <<ss[index + 1]>>, NoStats)

\* menu choice 3
searchStudent ==
    /\ phase = "running"
    /\ \E r \in RollInputs :
         /\ out' = searchStudentResult(students, r)
    /\ UNCHANGED <<students, file, phase>>

\* updateStudent that leaves the range of the marks to setMarks, after setName
updateStudentNameFirst(ss, r, n, m) ==
    LET index == findStudentIndex(ss, r.val)
        fail(st, msg) == Result(st, Output("update", msg, <<>>, NoStats))
    IN  IF ~r.ok THEN fail(ss, MsgBadRoll)
        ELSE IF index = -1 THEN fail(ss, MsgNotFound)
        ELSE IF n = <<>> THEN fail(ss, MsgNameEmpty)
        ELSE IF ~m.ok THEN fail(ss, MsgBadMarks)
        ELSE LET a == setName(ss[index + 1], n)
                 b == setMarks(a.s, m.val)
             IN  IF ~b.ok THEN fail([ss EXCEPT ![index + 1] = a.s], MsgMarksRange)
                 ELSE Result([ss EXCEPT ![index + 1] = b.s],
                             Output("update", MsgUpdated, <<>>, NoStats))

\* updateStudent that writes to the last record, not the one found
updateStudentLastRecord(ss, r, n, m) ==
    LET index == findStudentIndex(ss, r.val)
        fail(st, msg) == Result(st, Output("update", msg, <<>>, NoStats))
    IN  IF ~r.ok THEN fail(ss, MsgBadRoll)
        ELSE IF index = -1 THEN fail(ss, MsgNotFound)
        ELSE IF n = <<>> THEN fail(ss, MsgNameEmpty)
        ELSE IF ~m.ok THEN fail(ss, MsgBadMarks)
        ELSE IF m.val < MinMarks \/ m.val > MaxMarks THEN fail(ss, MsgMarksRange)
        ELSE Result([ss EXCEPT ![Len(ss)] = [@ EXCEPT !.name = n, !.marks = m.val]],
                    Output("update", MsgUpdated, <<>>, NoStats))

\* updateStudent on the store ss with the console holding the token r, then
\* the name n and the token m
updateStudentResult(ss, r, n, m) ==
    LET index == findStudentIndex(ss, r.val)
        fail(st, msg) == Result(st, Output("update", msg, <<>>, NoStats))
    IN  IF ~r.ok THEN fail(ss, MsgBadRoll)
        ELSE IF index = -1 THEN fail(ss, MsgNotFound)
        ELSE IF n = <<>> THEN fail(ss, MsgNameEmpty)
        ELSE IF ~m.ok THEN fail(ss, MsgBadMarks)
        ELSE IF m.val < MinMarks \/ m.val > MaxMarks THEN fail(ss, MsgMarksRange)
        ELSE LET a == setName(ss[index + 1], n)
                 b == setMarks(a.s, m.val)
             IN  IF ~a.ok THEN fail(ss, MsgNameEmpty)
                 ELSE IF ~b.ok THEN fail([ss EXCEPT ![index + 1] = a.s], MsgMarksRange)
                 ELSE Result([ss EXCEPT ![index + 1] = b.s],
                             Output("update", MsgUpdated, <<>>, NoStats))

\* the name and marks updateStudent reads once rollNo r was found in ss
NameRead(ss, r) ==
    IF r.ok /\ findStudentIndex(ss, r.val) # -1 THEN NameInputs ELSE {<<>>}
MarksReadAfter(n) == IF n = <<>> THEN {NoToken} ELSE MarksInputs

\* menu choice 4
updateStudent ==
    /\ phase = "running"
    /\ \E r \in RollInputs : \E n \in NameRead(students, r) : \E m \in MarksReadAfter(n) :
         LET res == updateStudentResult(students, r, n, m)
         IN  /\ students' = res.students
             /\ out' = res.out
    /\ UNCHANGED <<file, phase>>

deleteStudentResult(ss, r) ==
    LET index == findStudentIndex(ss, r.val)
    IN  IF ~r.ok THEN Result(ss, Output("delete", MsgBadRoll, <<>>, NoStats))
        ELSE IF index = -1 THEN Result(ss, Output("delete", MsgNotFound, <<>>, NoStats))
        ELSE Result(Erase(ss, index), Output("delete", MsgDeleted, <<>>, NoStats))

\* menu choice 5
deleteStudent ==
    /\ phase = "running"
    /\ \E r \in RollInputs :
         LET res == deleteStudentResult(students, r)
         IN  /\ students' = res.students
             /\ out' = res.out
    /\ UNCHANGED <<file, phase>>

\* the loop of showStatistics over the records from position i on
RECURSIVE StatisticsLoop(_, _, _, _, _)
StatisticsLoop(ss, i, total, maxMarks, minMarks) ==
    IF i > Len(ss)
    THEN [count |-> Len(ss), avgNum |-> total, avgDen |-> Len(ss),
          max |-> maxMarks, min |-> minMarks]
    ELSE StatisticsLoop(ss, i + 1, total + ss[i].marks,
                        IF ss[i].marks > maxMarks THEN ss[i].marks ELSE maxMarks,
                        IF ss[i].marks < minMarks THEN ss[i].marks ELSE minMarks)

\* showStatistics whose minimum starts from 0, not from the first record
showStatisticsMinFromZero(ss) ==
    IF ss = <<>> THEN Output("stats", MsgNoStudents, <<>>, NoStats)
    ELSE Output("stats", MsgStatistics, <<>>, StatisticsLoop(ss, 1, 0, ss[1].marks, 0))

\* what showStatistics prints; the average total / students.size() is kept as
\* the fraction avgNum / avgDen
showStatisticsResult(ss) ==
    IF ss = <<>> THEN Output("stats", MsgNoStudents, <<>>, NoStats)
    ELSE Output("stats", MsgStatistics, <<>>,
                StatisticsLoop(ss, 1, 0, ss[1].marks, ss[1].marks))

\* menu choice 6
showStatistics ==
    /\ phase = "running"
    /\ out' = showStatisticsResult(students)
    /\ UNCHANGED <<students, file, phase>>

\* the text on disk when the write of record k fails after j of its lines
PartialWrite(ss, k, j) ==
    WriteStudents(ss, k - 1)
      \o (IF j >= 1 THEN Line(ss[k].name) ELSE <<>>)
      \o (IF j >= 2 THEN Line(FormatInt(ss[k].rollNo)) ELSE <<>>)

\* saveToFile when every write succeeds: the file is replaced by the records
saveToFile(ss) == FileOf(WriteStudents(ss, Len(ss)))

\* menu choice 7: main returns, the destructor calls saveToFile
ExitSaved ==
    /\ phase = "running"
    /\ phase' = "off"
    /\ file' = saveToFile(students)
    /\ students' = <<>>
    /\ out' = Output("save", MsgSaved, <<>>, NoStats)

\* menu choice 7 when ofstream cannot open the file
ExitCannotCreate ==
    /\ phase = "running"
    /\ phase' = "off"
    /\ students' = <<>>
    /\ out' = Output("save", MsgCannotCreate, <<>>, NoStats)
    /\ UNCHANGED file

\* menu choice 7 when a write fails part of the way
ExitWriteFailed ==
    /\ phase = "running"
    /\ phase' = "off"
    /\ \E k \in 1..Len(students), j \in 0..2 :
         file' = FileOf(PartialWrite(students, k, j))
    /\ students' = <<>>
    /\ out' = Output("save", MsgWriteFailed, <<>>, NoStats)

Next ==
    \/ Start
    \/ addStudent
    \/ displayAll
    \/ searchStudent
    \/ updateStudent
    \/ deleteStudent
    \/ showStatistics
    \/ ExitSaved
    \/ ExitCannotCreate
    \/ ExitWriteFailed

Spec == Init /\ [][Next]_vars

-----------------------------------------------------------------------------
(* Properties.                                                             *)

Running == phase = "running"

Present(ss, rollNo) == \E i \in 1..Len(ss) : ss[i].rollNo = rollNo

\* the position (from 1) of the first record of ss with rollNo
FirstPosition(ss, rollNo) ==
    CHOOSE i \in 1..Len(ss) :
        ss[i].rollNo = rollNo /\ \A j \in 1..(i - 1) : ss[j].rollNo # rollNo

ValidMarks(m) == m.ok /\ m.val >= MinMarks /\ m.val <= MaxMarks

\* ss without its element at position p
Without(ss, p) == [i \in 1..(Len(ss) - 1) |-> IF i < p THEN ss[i] ELSE ss[i + 1]]

\* the records whose three fields are in the text, in the order of the text
RECURSIVE RecordsIn(_)
RecordsIn(text) ==
    LET r == ReadStudent(text)
    IN  IF r.st = "throw" THEN <<>>
        ELSE IF r.st = "fail" THEN <<r.rec>>
        ELSE <<r.rec>> \o RecordsIn(r.rest)

\* a read of a name, a rollNo or the marks fails somewhere in the text
RECURSIVE ParseFails(_)
ParseFails(text) ==
    LET r == ReadStudent(text)
    IN  IF r.st = "throw" THEN TRUE
        ELSE IF r.st = "fail" THEN FALSE
        ELSE ParseFails(r.rest)

RECURSIVE SumMarks(_)
SumMarks(ss) == IF ss = <<>> THEN 0 ELSE Head(ss).marks + SumMarks(Tail(ss))

\* C1: when the destructor has saved the store, loading the file it wrote
\* yields the records of the store, in the same order.
C1_SaveThenLoadRestoresStore ==
    [][(Running /\ out'.op = "save" /\ out'.msg = MsgSaved)
          => loadFromFile(file'.data, <<>>).students = students]_vars

\* C2: no two records of the store have the same rollNo.
C2_RollNoUnique ==
    \A i, j \in 1..Len(students) :
        i # j => students[i].rollNo # students[j].rollNo

\* C3: an add, update or delete that fails (empty name, negative rollNo, marks
\* outside [0,100], rollNo already present; update or delete of an absent
\* rollNo, update with an empty name or marks outside [0,100]) leaves the
\* store as it was.
C3_FailedOperationLeavesStore ==
    Running =>
      /\ \A n \in NameInputs, r \in RollInputs, m \in MarksInputs :
           (n = <<>> \/ ~r.ok \/ r.val < 0 \/ ~ValidMarks(m) \/ Present(students, r.val))
             => /\ addStudentResult(students, n, r, m).students = students
                /\ addStudentResult(students, n, r, m).out.msg # MsgAdded
      /\ \A r \in RollInputs, n \in NameInputs, m \in MarksInputs :
           (~r.ok \/ ~Present(students, r.val) \/ n = <<>> \/ ~ValidMarks(m))
             => /\ updateStudentResult(students, r, n, m).students = students
                /\ updateStudentResult(students, r, n, m).out.msg # MsgUpdated
      /\ \A r \in RollInputs :
           (~r.ok \/ ~Present(students, r.val))
             => /\ deleteStudentResult(students, r).students = students
                /\ deleteStudentResult(students, r).out.msg # MsgDeleted

\* a failed update (new marks out of range) of a record with another name has
\* been made
C3_Witness ==
    /\ Running
    /\ out.op = "update"
    /\ out.msg = MsgMarksRange
    /\ \E i \in 1..Len(students) : students[i].name # Alice

\* C4: every record of the store has a non-empty name, a rollNo >= 0 and marks
\* within [0,100].
C4_RecordsValid ==
    \A i \in 1..Len(students) :
        /\ students[i].name # <<>>
        /\ students[i].rollNo >= 0
        /\ students[i].marks >= MinMarks
        /\ students[i].marks <= MaxMarks

\* C5: add of a non-empty name, a rollNo >= 0 not in the store and marks
\* within [0,100] (0 and 100 included) succeeds, appends the record as the
\* last one, and a search of the rollNo right after shows that record.
C5_AddThenFind ==
    Running =>
      \A n \in NameInputs, r \in RollInputs, m \in MarksInputs :
        (n # <<>> /\ r.ok /\ r.val >= 0 /\ ValidMarks(m) /\ ~Present(students, r.val))
          => LET res == addStudentResult(students, n, r, m)
                 rec == [name |-> n, rollNo |-> r.val, marks |-> m.val]
             IN  /\ res.out.msg = MsgAdded
                 /\ res.students = Append(students, rec)
                 /\ searchStudentResult(res.students, r).msg = MsgFound
                 /\ searchStudentResult(res.students, r).rows = <<rec>>

\* an add with marks 100 has succeeded on a store that held a record
C5_Witness ==
    /\ Running
    /\ out.op = "add"
    /\ out.msg = MsgAdded
    /\ Len(students) >= 2
    /\ students[Len(students)].marks = MaxMarks

\* C6: delete of a rollNo of the store removes exactly that record (one record
\* less, the others unchanged and in order), and a search of the rollNo right
\* after finds nothing.
C6_DeleteRemovesRecord ==
    Running =>
      \A r \in RollInputs :
        (r.ok /\ Present(students, r.val))
          => LET res == deleteStudentResult(students, r)
             IN  /\ res.out.msg = MsgDeleted
                 /\ Len(res.students) = Len(students) - 1
                 /\ res.students = Without(students, FirstPosition(students, r.val))
                 /\ searchStudentResult(res.students, r).msg = MsgNotFound

\* C7: update changes no rollNo, neither the number nor the order of the
\* records, no record but the one found for rollNo; and it changes that record
\* only to the new name and marks, and only when the name is non-empty and the
\* marks are within [0,100].
C7_UpdateFrame ==
    Running =>
      \A r \in RollInputs, n \in NameInputs, m \in MarksInputs :
        LET res == updateStudentResult(students, r, n, m).students
        IN  /\ Len(res) = Len(students)
            /\ \A i \in 1..Len(students) : res[i].rollNo = students[i].rollNo
            /\ \A i \in 1..Len(students) :
                 res[i] # students[i]
                   => /\ r.ok
                      /\ Present(students, r.val)
                      /\ i = FirstPosition(students, r.val)
                      /\ n # <<>>
                      /\ ValidMarks(m)
                      /\ res[i].name = n
                      /\ res[i].marks = m.val

\* an update has succeeded on the middle record of a store of three
C7_Witness ==
    /\ Running
    /\ out.op = "update"
    /\ out.msg = MsgUpdated
    /\ Len(students) = 3
    /\ students[1] = RecA
    /\ students[2] # RecB
    /\ students[3] = RecC

\* C8: after the load of a file in which a read of a name, a rollNo or the
\* marks fails, the store is empty, the corruption warning is printed and the
\* program runs on.
C8_CorruptFileGivesEmptyStore ==
    (out.op = "load" /\ file.exists /\ ParseFails(file.data))
      => /\ students = <<>>
         /\ out.msg = MsgCorrupted
         /\ Running

\* the load of a file with one whole record and then a name line alone has
\* been made
C8_Witness ==
    /\ out.op = "load"
    /\ file = FileOf(WriteStudent(RecAlice) \o Line(Bob))
    /\ out.msg = MsgCorrupted

\* C9: statistics on an empty store prints the empty signal and computes
\* nothing; on a non-empty store the count is the number of records, the
\* average the sum of the marks over that count, the maximum and the minimum
\* the largest and the smallest marks of a record; the store is unchanged.
C9_Statistics ==
    [][(Running /\ out'.op = "stats")
         => /\ students' = students
            /\ students = <<>> => (out'.msg = MsgNoStudents /\ out'.stats = NoStats)
            /\ students # <<>> =>
                 /\ out'.msg = MsgStatistics
                 /\ out'.stats.count = Len(students)
                 /\ out'.stats.avgDen = Len(students)
                 /\ out'.stats.avgNum = SumMarks(students)
                 /\ \E i \in 1..Len(students) : students[i].marks = out'.stats.max
                 /\ \A i \in 1..Len(students) : students[i].marks <= out'.stats.max
                 /\ \E i \in 1..Len(students) : students[i].marks = out'.stats.min
                 /\ \A i \in 1..Len(students) : students[i].marks >= out'.stats.min]_vars

\* statistics has been printed for a store with the marks 50, 70 and 90:
\* count 3, average 70, maximum 90, minimum 50
C9_Witness ==
    /\ Running
    /\ students = <<RecA, RecB, RecC>>
    /\ out.op = "stats"
    /\ out.stats.count = 3
    /\ out.stats.avgNum = 70 * Scale * out.stats.avgDen
    /\ out.stats.max = 90 * Scale
    /\ out.stats.min = 50 * Scale

\* C10: when the load of an existing file prints the success message, the
\* store holds every record of the file, in the order of the file.
C10_LoadedWithoutWarningKeepsAll ==
    (out.op = "load" /\ out.msg = MsgLoaded) => students = RecordsIn(file.data)

====
